---- MODULE Spec2Model ----
(***************************************************************************)
(* Model of scripts/download_MIMIC-CXR.py: the crawl / download / convert  *)
(* pipeline (crawl_and_convert_dicom, download_and_convert, download_file, *)
(* dicom_to_jpg) and the archive helper extract_if_archive.                *)
(*                                                                         *)
(* Strings that the code slices are modelled structurally: a path segment  *)
(* is a record [name, ext], a URL is the sequence of its path segments on  *)
(* the one host plus a trailing-slash flag, an href is a relative or       *)
(* absolute sequence of segments plus a trailing-slash flag.               *)
(***************************************************************************)
EXTENDS Integers, Sequences, FiniteSets, TLC

VARIABLES
    site,            \* the remote server: listings per directory, broken directories
    profile,         \* per remote file: how download / decode / encode / write / remove behave
    max_files,       \* argument max_files of crawl_and_convert_dicom
    pc,              \* position of the control thread
    dcm_count,       \* local dcm_count
    links_to_visit,  \* local links_to_visit (a list used as a stack)
    visited,         \* local visited
    current_url,     \* local current_url
    soup,            \* anchors of the current listing still to be iterated (line 260)
    tasks,           \* local tasks: the futures of the current directory, with their state
    yielded,         \* indices of tasks that as_completed has already yielded
    fs,              \* the local filesystem: path -> content
    fetchLog,        \* history: the directory URLs whose listing was requested, in order
    batchBase,       \* history: dcm_count when the current tasks list was created
    job              \* input and result of a stand-alone call (dicom_to_jpg, extract_if_archive)

vars == <<site, profile, max_files, pc, dcm_count, links_to_visit, visited,
          current_url, soup, tasks, yielded, fs, fetchLog, batchBase, job>>

crawlVars == <<pc, dcm_count, links_to_visit, visited, current_url, soup,
               tasks, yielded, fetchLog, batchBase>>

(***************************************************************************)
(* Bounds and program constants                                            *)
(***************************************************************************)
MaxBudget == 2

max_workers == 5

TargetSize == 1000000

(***************************************************************************)
(* Segments, hrefs, URLs                                                   *)
(***************************************************************************)
D(n) == [name |-> n, ext |-> ""]

F(n, e) == [name |-> n, ext |-> e]

Up == D("..")

Dot == D(".")

H(segs, slash) == [abs |-> FALSE, segs |-> segs, slash |-> slash]

HAbs(segs, slash) == [abs |-> TRUE, segs |-> segs, slash |-> slash]

\* link.get('href', '') of an anchor without href, and href=""
EmptyHref == H(<< >>, FALSE)

ParentHref == H(<<Up>>, TRUE)

KeySeg == D("mimic-cxr/2.1.0")

BASE_DICOM_URL == [path |-> <<D("files"), KeySeg, D("files")>>, slash |-> TRUE]

SAVE_DIR == <<D("Dataset")>>

Front(s) == SubSeq(s, 1, Len(s) - 1)

Last(s) == s[Len(s)]

\* str.lower() on the extensions the model uses
Lower(e) ==
    CASE e = ".DCM" -> ".dcm"
      [] e = ".ZIP" -> ".zip"
      [] e = ".GZ"  -> ".gz"
      [] OTHER      -> e

\* href.endswith('/')
EndsWithSlash(href) == href.slash

\* href.lower().endswith('.dcm')
EndsWithDcm(href) ==
    /\ ~href.slash
    /\ href.segs # << >>
    /\ Lower(Last(href.segs).ext) = ".dcm"

\* removal of "." and ".." segments as urllib.parse.urljoin does it
RECURSIVE RemoveDots(_, _)
RemoveDots(todo, acc) ==
    IF todo = << >> THEN acc
    ELSE LET s == todo[1] IN
         IF s = Dot THEN RemoveDots(Tail(todo), acc)
         ELSE IF s = Up
              THEN RemoveDots(Tail(todo), IF acc = << >> THEN acc ELSE Front(acc))
              ELSE RemoveDots(Tail(todo), Append(acc, s))

urljoin(base, href) ==
    IF href = EmptyHref THEN base
    ELSE LET basedir == IF base.slash \/ base.path = << >> THEN base.path
                        ELSE Front(base.path)
             raw     == IF href.abs THEN href.segs ELSE basedir \o href.segs
             dotEnd  == href.segs # << >> /\ Last(href.segs) \in {Up, Dot}
         IN  [path |-> RemoveDots(raw, << >>), slash |-> href.slash \/ dotEnd]

\* index of the first segment that ends the split key "mimic-cxr/2.1.0/", 0 if none
KeyIndex(url) ==
    LET hits == {i \in 1..Len(url.path) :
                    /\ url.path[i] = KeySeg
                    /\ (i < Len(url.path) \/ url.slash)}
    IN  IF hits = {} THEN 0 ELSE CHOOSE i \in hits : \A j \in hits : i <= j

relative_local_path(full_url) ==
    IF KeyIndex(full_url) = 0
    THEN IF full_url.slash \/ full_url.path = << >> THEN << >>
         ELSE <<Last(full_url.path)>>
    ELSE SubSeq(full_url.path, KeyIndex(full_url) + 1, Len(full_url.path))

\* os.path.join(save_dir, rel_path)
DcmLocalPath(full_url) == SAVE_DIR \o relative_local_path(full_url)

\* dcm_local_path[:-4] + '.jpg'
JpgLocalPath(dcm_local_path) ==
    Front(dcm_local_path) \o <<F(Last(dcm_local_path).name, ".jpg")>>

(***************************************************************************)
(* The local filesystem                                                    *)
(***************************************************************************)
Exists(files, path) == path \in DOMAIN files

\* open(path, 'wb') followed by the writes: the path holds exactly this content
Put(files, path, content) ==
    [p \in DOMAIN files \cup {path} |-> IF p = path THEN content ELSE files[p]]

\* os.remove(path)
Del(files, path) == [p \in DOMAIN files \ {path} |-> files[p]]

EmptyFs == [p \in {} |-> 0]

\* a file received from the remote file src; full = FALSE when the stream broke
Downloaded(src, full) ==
    [kind |-> "remote", src |-> src, full |-> full, quality |-> 0, len |-> 0]

\* an encoded image: the bytes cv2.imencode produced from src at this quality
Jpg(src, quality, len, full) ==
    [kind |-> "jpg", src |-> src, full |-> full, quality |-> quality, len |-> len]

\* a file written by an archive extraction
Extracted(src, full) ==
    [kind |-> "extracted", src |-> src, full |-> full, quality |-> 0, len |-> 0]

(***************************************************************************)
(* download_file                                                           *)
(***************************************************************************)
\* dl = "ok": the whole body is written; "http": raise_for_status raises
\* before the file is opened; "partial": the stream breaks after open()
download_file(files, file_url, local_path, dl) ==
    CASE dl = "http"    -> [fs |-> files, raised |-> TRUE]
      [] dl = "partial" -> [fs |-> Put(files, local_path, Downloaded(file_url.path, FALSE)),
                            raised |-> TRUE]
      [] OTHER          -> [fs |-> Put(files, local_path, Downloaded(file_url.path, TRUE)),
                            raised |-> FALSE]

(***************************************************************************)
(* dicom_to_jpg                                                            *)
(***************************************************************************)
Qualities == {10, 20, 30, 40, 50, 60, 70, 80, 90}

\* pydicom.dcmread(dcm_path) and ds.pixel_array succeed
CanDecode(files, prof, dcm_path) ==
    /\ Exists(files, dcm_path)
    /\ files[dcm_path].kind = "remote"
    /\ files[dcm_path].full
    /\ prof[files[dcm_path].src].decode

\* the size test excludes the ceiling itself
RECURSIVE QualitySearch_Strict(_, _, _)
QualitySearch_Strict(enc, quality, target_size) ==
    LET r == enc[quality] IN
    IF ~r.ok THEN [ok |-> FALSE, quality |-> quality, len |-> 0]
    ELSE IF r.len < target_size THEN [ok |-> TRUE, quality |-> quality, len |-> r.len]
    ELSE IF quality - 10 >= 10 THEN QualitySearch_Strict(enc, quality - 10, target_size)
    ELSE [ok |-> TRUE, quality |-> quality, len |-> r.len]

\* the while loop of lines 156-169: enc[q] is what cv2.imencode returns at
\* quality q, as [ok, len]
RECURSIVE QualitySearch(_, _, _)
QualitySearch(enc, quality, target_size) ==
    LET r == enc[quality] IN
    IF ~r.ok THEN [ok |-> FALSE, quality |-> quality, len |-> 0]
    ELSE IF r.len <= target_size THEN [ok |-> TRUE, quality |-> quality, len |-> r.len]
    ELSE IF quality - 10 >= 10 THEN QualitySearch(enc, quality - 10, target_size)
    ELSE [ok |-> TRUE, quality |-> quality, len |-> r.len]

\* the source is removed before the target is written
dicom_to_jpg_RemoveFirst(files, prof, dcm_path, jpg_path, target_size, io) ==
    IF ~CanDecode(files, prof, dcm_path)
    THEN [fs |-> files, raised |-> FALSE]
    ELSE LET src  == files[dcm_path].src
             e    == QualitySearch(prof[src].enc, 90, target_size)
             gone == IF io.remove THEN Del(files, dcm_path) ELSE files
         IN  IF ~e.ok THEN [fs |-> files, raised |-> FALSE]
             ELSE CASE io.write = "nofile" ->
                         [fs |-> gone, raised |-> TRUE]
                    [] io.write = "partial" ->
                         [fs |-> Put(gone, jpg_path, Jpg(src, e.quality, e.len, FALSE)),
                          raised |-> TRUE]
                    [] OTHER ->
                         [fs |-> Put(gone, jpg_path, Jpg(src, e.quality, e.len, TRUE)),
                          raised |-> FALSE]

\* io.write = "ok" | "nofile" (makedirs or open fails) | "partial" (a write
\* fails after open); io.remove = os.remove succeeds
dicom_to_jpg(files, prof, dcm_path, jpg_path, target_size, io) ==
    IF ~CanDecode(files, prof, dcm_path)
    THEN [fs |-> files, raised |-> FALSE]
    ELSE LET src == files[dcm_path].src
             e   == QualitySearch(prof[src].enc, 90, target_size)
         IN  IF ~e.ok THEN [fs |-> files, raised |-> FALSE]
             ELSE CASE io.write = "nofile" ->
                         [fs |-> files, raised |-> TRUE]
                    [] io.write = "partial" ->
                         [fs |-> Put(files, jpg_path, Jpg(src, e.quality, e.len, FALSE)),
                          raised |-> TRUE]
                    [] OTHER ->
                         LET written == Put(files, jpg_path, Jpg(src, e.quality, e.len, TRUE))
                         IN  [fs |-> IF io.remove THEN Del(written, dcm_path) ELSE written,
                              raised |-> FALSE]

(***************************************************************************)
(* The remote server and the behaviour of the remote files                 *)
(***************************************************************************)
Root == BASE_DICOM_URL.path

DirA == Root \o <<D("a")>>

DirB == Root \o <<D("b")>>

Outside == <<D("files")>>

\* a tree: a directory linked from two parents, parent links, an anchor without href
TreeListing ==
    [p \in {Root, DirA, DirB} |->
        CASE p = Root -> <<ParentHref, H(<<D("a")>>, TRUE), H(<<D("b")>>, TRUE),
                           H(<<F("x", ".dcm")>>, FALSE)>>
          [] p = DirA -> <<ParentHref, H(<<F("y", ".dcm")>>, FALSE),
                           H(<<F("z", ".DCM")>>, FALSE)>>
          [] OTHER    -> <<H(<<Up, D("a")>>, TRUE), H(<<F("n", ".txt")>>, FALSE), EmptyHref>>]

\* one directory with three images and a subdirectory
BatchListing ==
    [p \in {Root, DirA} |->
        CASE p = Root -> <<H(<<D("a")>>, TRUE), H(<<F("x", ".dcm")>>, FALSE),
                           H(<<F("y", ".dcm")>>, FALSE), H(<<F("w", ".dcm")>>, FALSE)>>
          [] OTHER    -> <<ParentHref>>]

\* directories that link each other and the root
CycleListing ==
    [p \in {Root, DirA, DirB} |->
        CASE p = Root -> <<H(<<D("a")>>, TRUE), H(<<D("b")>>, TRUE)>>
          [] p = DirA -> <<H(<<Up, D("b")>>, TRUE), HAbs(Root, TRUE),
                           H(<<F("x", ".dcm")>>, FALSE)>>
          [] OTHER    -> <<H(<<Up, D("a")>>, TRUE), H(<<F("x", ".dcm")>>, FALSE)>>]

\* the same file linked twice, and once more with another extension case
DupListing ==
    [p \in {Root} |->
        <<H(<<F("x", ".dcm")>>, FALSE), H(<<F("x", ".dcm")>>, FALSE),
          H(<<F("x", ".DCM")>>, FALSE)>>]

\* a listing with a link that climbs two levels
EscapeListing ==
    [p \in {Root, Outside} |->
        CASE p = Root -> <<H(<<Up, Up>>, TRUE), H(<<F("y", ".dcm")>>, FALSE)>>
          [] OTHER    -> <<H(<<F("q", ".dcm")>>, FALSE)>>]

Listings == {TreeListing, BatchListing, CycleListing, DupListing, EscapeListing}

\* at most one directory whose listing request fails
Sites ==
    UNION {{[listing |-> l, broken |-> b] : b \in {{}} \cup {{d} : d \in DOMAIN l}} :
           l \in Listings}

DirUrl(path) == [path |-> path, slash |-> TRUE]

\* the URLs of the .dcm links of the listings of this server
SiteFiles(st) ==
    UNION {{urljoin(DirUrl(d), st.listing[d][i]).path :
              i \in {j \in 1..Len(st.listing[d]) : EndsWithDcm(st.listing[d][j])}} :
           d \in DOMAIN st.listing}

EncFits == [q \in Qualities |-> [ok |-> TRUE, len |-> TargetSize]]

EncFails == [q \in Qualities |-> [ok |-> FALSE, len |-> 0]]

POk == [dl |-> "ok", decode |-> TRUE, enc |-> EncFits, write |-> "ok", remove |-> TRUE]

\* a file that converts, and files that fail at one stage each
CrawlProfiles ==
    {POk,
     [POk EXCEPT !.dl = "http"],
     [POk EXCEPT !.dl = "partial"],
     [POk EXCEPT !.decode = FALSE],
     [POk EXCEPT !.enc = EncFails],
     [POk EXCEPT !.write = "nofile"]}

NoJob == [op |-> "none"]

(***************************************************************************)
(* get_soup                                                                *)
(***************************************************************************)
\* r.raise_for_status() does not raise
Served(st, url) == url.path \in DOMAIN st.listing /\ url.path \notin st.broken

get_soup(st, url) == st.listing[url.path]

(***************************************************************************)
(* crawl_and_convert_dicom: the control thread                             *)
(***************************************************************************)
Init ==
    /\ site \in Sites
    /\ profile \in [SiteFiles(site) -> CrawlProfiles]
    /\ max_files \in 0..MaxBudget
    /\ pc = "while"
    /\ dcm_count = 0
    /\ links_to_visit = <<BASE_DICOM_URL>>
    /\ visited = {}
    /\ current_url = BASE_DICOM_URL
    /\ soup = << >>
    /\ tasks = << >>
    /\ yielded = {}
    /\ fs = EmptyFs
    /\ fetchLog = << >>
    /\ batchBase = 0
    /\ job = NoJob

Frozen == UNCHANGED <<site, profile, max_files, job>>

\* a budget comparison off by one
BudgetReached_OffByOne(count) == count > max_files

\* lines 251, 279, 286, 291: dcm_count >= max_files
BudgetReached(count) == count >= max_files

\* the loop condition looks at the frontier alone
LoopCondition_FrontierOnly == links_to_visit # << >>

\* line 251: the loop condition
LoopCondition == links_to_visit # << >> /\ ~BudgetReached(dcm_count)

\* no membership test
AlreadyVisited_Never(url) == FALSE

\* line 253: current_url in visited
AlreadyVisited(url) == url \in visited

\* line 251, condition false: the function returns
LoopExit ==
    /\ pc = "while"
    /\ ~LoopCondition
    /\ pc' = "done"
    /\ UNCHANGED <<dcm_count, links_to_visit, visited, current_url, soup, tasks,
                   yielded, fs, fetchLog, batchBase>>
    /\ Frozen

\* the visited location is read but stays on the frontier
PopSkip_NoPop ==
    /\ pc = "while"
    /\ LoopCondition
    /\ AlreadyVisited(Last(links_to_visit))
    /\ current_url' = Last(links_to_visit)
    /\ UNCHANGED <<pc, dcm_count, links_to_visit, visited, soup, tasks, yielded,
                   fs, fetchLog, batchBase>>
    /\ Frozen

\* lines 252-254: pop a location that is already in visited
PopSkip ==
    /\ pc = "while"
    /\ LoopCondition
    /\ AlreadyVisited(Last(links_to_visit))
    /\ current_url' = Last(links_to_visit)
    /\ links_to_visit' = Front(links_to_visit)
    /\ UNCHANGED <<pc, dcm_count, visited, soup, tasks, yielded, fs, fetchLog, batchBase>>
    /\ Frozen

\* lines 252-255: pop a new location and add it to visited
PopVisit ==
    /\ pc = "while"
    /\ LoopCondition
    /\ ~AlreadyVisited(Last(links_to_visit))
    /\ current_url' = Last(links_to_visit)
    /\ links_to_visit' = Front(links_to_visit)
    /\ visited' = visited \cup {Last(links_to_visit)}
    /\ pc' = "get_soup"
    /\ UNCHANGED <<dcm_count, soup, tasks, yielded, fs, fetchLog, batchBase>>
    /\ Frozen

\* lines 257-259: the listing arrives; tasks = [] and the pool is created
GetSoupOk ==
    /\ pc = "get_soup"
    /\ Served(site, current_url)
    /\ fetchLog' = Append(fetchLog, current_url)
    /\ soup' = get_soup(site, current_url)
    /\ tasks' = << >>
    /\ yielded' = {}
    /\ batchBase' = dcm_count
    /\ pc' = "anchors"
    /\ UNCHANGED <<dcm_count, links_to_visit, visited, current_url, fs>>
    /\ Frozen

\* line 257: get_soup raises; nothing in crawl_and_convert_dicom catches it
GetSoupRaise ==
    /\ pc = "get_soup"
    /\ ~Served(site, current_url)
    /\ fetchLog' = Append(fetchLog, current_url)
    /\ pc' = "raised"
    /\ UNCHANGED <<dcm_count, links_to_visit, visited, current_url, soup, tasks,
                   yielded, fs, batchBase>>
    /\ Frozen

NewTask(full_url) ==
    [file_url |-> full_url,
     dcm_path |-> DcmLocalPath(full_url),
     jpg_path |-> JpgLocalPath(DcmLocalPath(full_url)),
     st       |-> "pending",
     result   |-> FALSE]

\* only the anchor without href is skipped
IsSkipped_EmptyOnly(href) == href = EmptyHref

\* lines 262-263: an anchor that is skipped
IsSkipped(href) == href = EmptyHref \/ href = ParentHref

\* lines 260-276: one iteration of the loop over the anchors
Anchor ==
    /\ pc = "anchors"
    /\ soup # << >>
    /\ \E href \in {Head(soup)}, full_url \in {urljoin(current_url, Head(soup))} :
           /\ soup' = Tail(soup)
           /\ IF IsSkipped(href)
              THEN UNCHANGED <<links_to_visit, tasks>>
              ELSE IF EndsWithSlash(href)
                   THEN /\ links_to_visit' = Append(links_to_visit, full_url)
                        /\ UNCHANGED tasks
                   ELSE IF EndsWithDcm(href)
                        THEN /\ tasks' = Append(tasks, NewTask(full_url))
                             /\ UNCHANGED links_to_visit
                        ELSE UNCHANGED <<links_to_visit, tasks>>
    /\ UNCHANGED <<pc, dcm_count, visited, current_url, yielded, fs, fetchLog, batchBase>>
    /\ Frozen

\* line 260: the anchors are exhausted; line 278 starts
AnchorsEnd ==
    /\ pc = "anchors"
    /\ soup = << >>
    /\ pc' = "as_completed"
    /\ UNCHANGED <<dcm_count, links_to_visit, visited, current_url, soup, tasks,
                   yielded, fs, fetchLog, batchBase>>
    /\ Frozen

\* every completion is counted
Counted_Always(count, success) == count + 1

\* lines 282-284: dcm_count after the result of a future was read
Counted(count, success) == IF success THEN count + 1 ELSE count

\* the break is taken after the first future
Breaks_Always(count, success) == TRUE

\* lines 279-280 and 286-287: the body leaves the loop
Breaks(count, success) ==
    BudgetReached(count) \/ BudgetReached(Counted(count, success))

\* lines 278-289: as_completed yields a finished future and the body runs
AsCompleted(i) ==
    /\ pc = "as_completed"
    /\ i \in DOMAIN tasks
    /\ i \notin yielded
    /\ tasks[i].st = "done"
    /\ yielded' = yielded \cup {i}
    /\ dcm_count' = IF BudgetReached(dcm_count) THEN dcm_count
                    ELSE Counted(dcm_count, tasks[i].result)
    /\ pc' = IF Breaks(dcm_count, tasks[i].result) THEN "exit_pool" ELSE "as_completed"
    /\ UNCHANGED <<links_to_visit, visited, current_url, soup, tasks, fs, fetchLog, batchBase>>
    /\ Frozen

\* line 278: every future was yielded
AsCompletedEnd ==
    /\ pc = "as_completed"
    /\ yielded = DOMAIN tasks
    /\ pc' = "exit_pool"
    /\ UNCHANGED <<dcm_count, links_to_visit, visited, current_url, soup, tasks,
                   yielded, fs, fetchLog, batchBase>>
    /\ Frozen

\* Executor.__exit__: shutdown(wait=True) returns when every future is done
AllDone(ts) == \A i \in DOMAIN ts : ts[i].st = "done"

\* shutdown(wait=False)
PoolMayExit_NoWait(ts) == TRUE

PoolMayExit(ts) == AllDone(ts)

\* line 259, leaving the with block
ExitPool ==
    /\ pc = "exit_pool"
    /\ PoolMayExit(tasks)
    /\ pc' = "check"
    /\ UNCHANGED <<dcm_count, links_to_visit, visited, current_url, soup, tasks,
                   yielded, fs, fetchLog, batchBase>>
    /\ Frozen

\* lines 291-292
Check ==
    /\ pc = "check"
    /\ pc' = IF BudgetReached(dcm_count) THEN "done" ELSE "while"
    /\ UNCHANGED <<dcm_count, links_to_visit, visited, current_url, soup, tasks,
                   yielded, fs, fetchLog, batchBase>>
    /\ Frozen

(***************************************************************************)
(* The pool's workers: download_and_convert                                *)
(***************************************************************************)
Running(ts) == {i \in DOMAIN ts : ts[i].st \in {"downloading", "converting"}}

\* a worker thread takes the oldest queued work item
WorkerStart(i) ==
    /\ i \in DOMAIN tasks
    /\ tasks[i].st = "pending"
    /\ \A j \in 1..(i - 1) : tasks[j].st # "pending"
    /\ Cardinality(Running(tasks)) < max_workers
    /\ tasks' = [tasks EXCEPT ![i].st = "downloading"]
    /\ UNCHANGED <<pc, dcm_count, links_to_visit, visited, current_url, soup,
                   yielded, fs, fetchLog, batchBase>>
    /\ Frozen

\* the conversion follows the download whatever the download did
WorkerDownload_Proceeds(i) ==
    /\ i \in DOMAIN tasks
    /\ tasks[i].st = "downloading"
    /\ LET t == tasks[i]
           r == download_file(fs, t.file_url, t.dcm_path, profile[t.file_url.path].dl)
       IN  /\ fs' = r.fs
           /\ tasks' = [tasks EXCEPT ![i].st = "converting", ![i].result = FALSE]
    /\ UNCHANGED <<pc, dcm_count, links_to_visit, visited, current_url, soup,
                   yielded, fetchLog, batchBase>>
    /\ Frozen

\* lines 300-305
WorkerDownload(i) ==
    /\ i \in DOMAIN tasks
    /\ tasks[i].st = "downloading"
    /\ LET t == tasks[i]
           r == download_file(fs, t.file_url, t.dcm_path, profile[t.file_url.path].dl)
       IN  /\ fs' = r.fs
           /\ tasks' = [tasks EXCEPT ![i].st = IF r.raised THEN "done" ELSE "converting",
                                     ![i].result = FALSE]
    /\ UNCHANGED <<pc, dcm_count, links_to_visit, visited, current_url, soup,
                   yielded, fetchLog, batchBase>>
    /\ Frozen

\* lines 307-313
WorkerConvert(i) ==
    /\ i \in DOMAIN tasks
    /\ tasks[i].st = "converting"
    /\ LET t  == tasks[i]
           io == [write  |-> profile[t.file_url.path].write,
                  remove |-> profile[t.file_url.path].remove]
           r  == dicom_to_jpg(fs, profile, t.dcm_path, t.jpg_path, TargetSize, io)
       IN  /\ fs' = r.fs
           /\ tasks' = [tasks EXCEPT ![i].st = "done", ![i].result = ~r.raised]
    /\ UNCHANGED <<pc, dcm_count, links_to_visit, visited, current_url, soup,
                   yielded, fetchLog, batchBase>>
    /\ Frozen

MaxTasks == 3

Next ==
    \/ LoopExit
    \/ PopSkip
    \/ PopVisit
    \/ GetSoupOk
    \/ GetSoupRaise
    \/ Anchor
    \/ AnchorsEnd
    \/ \E i \in 1..MaxTasks : AsCompleted(i)
    \/ AsCompletedEnd
    \/ ExitPool
    \/ Check
    \/ \E i \in 1..MaxTasks : WorkerStart(i)
    \/ \E i \in 1..MaxTasks : WorkerDownload(i)
    \/ \E i \in 1..MaxTasks : WorkerConvert(i)

Spec == Init /\ [][Next]_vars

\* The crawl under a fair scheduler: while some thread can take a step, a
\* step is eventually taken (every request is made with a timeout and every
\* loop of a unit is bounded).  Fairness for each thread on its own implies
\* this condition.
FairSpec == Init /\ [][Next]_vars /\ WF_vars(Next)

(***************************************************************************)
(* Properties of the crawl                                                 *)
(***************************************************************************)
Range(f) == {f[i] : i \in DOMAIN f}

\* the unit behind tasks[i] returned True
Succeeded(i) == tasks[i].st = "done" /\ tasks[i].result

\* C1: in every reachable state of the crawl, for every max_files >= 0 and
\* every order of worker steps and completions, dcm_count <= max_files.
C1_CountWithinBudget == dcm_count <= max_files

\* C1 witness: the budget is full while a further unit of the batch has
\* finished successfully and was not counted.
C1_Witness ==
    /\ max_files > 0
    /\ dcm_count = max_files
    /\ \E i \in DOMAIN tasks : i \notin yielded /\ Succeeded(i)

\* the directories of the crawl tree: reachable from the root through the
\* directory links of the listings that are served
DirLinks(st, d) ==
    IF d \in DOMAIN st.listing /\ d \notin st.broken
    THEN {urljoin(DirUrl(d), st.listing[d][i]).path :
            i \in {j \in 1..Len(st.listing[d]) :
                     /\ st.listing[d][j] \notin {EmptyHref, ParentHref}
                     /\ st.listing[d][j].slash}}
    ELSE {}

RECURSIVE TreeDirs(_, _)
TreeDirs(st, seen) ==
    LET more == seen \cup UNION {DirLinks(st, d) : d \in seen}
    IN  IF more = seen THEN seen ELSE TreeDirs(st, more)

FileLinks(st, d) ==
    IF d \in DOMAIN st.listing /\ d \notin st.broken
    THEN {urljoin(DirUrl(d), st.listing[d][i]).path :
            i \in {j \in 1..Len(st.listing[d]) :
                     /\ ~st.listing[d][j].slash
                     /\ st.listing[d][j].segs # << >>
                     /\ Last(st.listing[d][j].segs).ext \in {".dcm", ".DCM"}}}
    ELSE {}

\* a remote file that downloads, decodes, encodes and is written without error
Convertible(f) ==
    /\ profile[f].dl = "ok"
    /\ profile[f].decode
    /\ \A q \in Qualities : profile[f].enc[q].ok
    /\ profile[f].write = "ok"

ConvertibleFiles ==
    {f \in UNION {FileLinks(site, d) : d \in TreeDirs(site, {Root})} : Convertible(f)}

\* C2: when the crawl tree holds at least max_files convertible .dcm files,
\* dcm_count equals max_files when crawl_and_convert_dicom returns.
C2_CountReachesBudget ==
    (pc = "done" /\ Cardinality(ConvertibleFiles) >= max_files)
        => dcm_count = max_files

\* C2 witness: a return after more than one directory, with a budget of at
\* least two met although a file of the tree is not convertible.
C2_Witness ==
    /\ pc = "done"
    /\ max_files >= 2
    /\ Cardinality(ConvertibleFiles) >= max_files
    /\ dcm_count = max_files
    /\ Len(fetchLog) >= 2
    /\ \E f \in DOMAIN profile : ~Convertible(f)

\* C3: the listing of a directory location is requested at most once; a
\* location is in visited from the step that pops it, and a popped location
\* that is already in visited is not requested again.
C3_FetchedAtMostOnce ==
    /\ \A i, j \in DOMAIN fetchLog : fetchLog[i] = fetchLog[j] => i = j
    /\ Range(fetchLog) \subseteq visited
    /\ pc = "get_soup" => (current_url \in visited /\ current_url \notin Range(fetchLog))

\* C3 witness: a location whose listing was requested earlier has been popped
\* again and skipped.
C3_Witness ==
    /\ pc = "while"
    /\ fetchLog # << >>
    /\ current_url \in Range(fetchLog)
    /\ Last(fetchLog) # current_url

\* C4: a failed listing request abandons only that directory: when the
\* control thread has stopped below the budget, no location that was never
\* visited is left in links_to_visit.
C4_ListingFailureIsLocal ==
    (pc \in {"done", "raised"} /\ dcm_count < max_files)
        => \A i \in DOMAIN links_to_visit : links_to_visit[i] \in visited

\* the case of C5: each unit of the batch either fails in its download or
\* is converted
DownloadFailuresOnly ==
    \A i \in DOMAIN tasks :
        LET f == tasks[i].file_url.path IN
        \/ profile[f].dl # "ok"
        \/ /\ tasks[i].result
           /\ Exists(fs, tasks[i].jpg_path)
           /\ fs[tasks[i].jpg_path].kind = "jpg"

NumSucceeded == Cardinality({i \in DOMAIN tasks : Succeeded(i)})

\* C5: when the pool of a directory has been left and each unit of the batch
\* either failed in its download or was converted, every unit is done, the
\* units that failed are exactly those whose download failed, and, the budget
\* leaving room for them, dcm_count grew by exactly the number of units that
\* succeeded; the control thread stops with an exception only in get_soup.
C5_FailuresAreIsolated ==
    /\ (pc = "check" /\ DownloadFailuresOnly) =>
          /\ AllDone(tasks)
          /\ \A i \in DOMAIN tasks :
                tasks[i].result = (profile[tasks[i].file_url.path].dl = "ok")
          /\ batchBase + NumSucceeded <= max_files
                => dcm_count = batchBase + NumSucceeded
    /\ pc = "raised" => ~Served(site, current_url)

\* C5 witness: a batch of three units of which exactly one failed in its
\* download has been drained and the two others were counted.
C5_Witness ==
    /\ pc = "check"
    /\ DownloadFailuresOnly
    /\ Len(tasks) = 3
    /\ Cardinality({i \in DOMAIN tasks : profile[tasks[i].file_url.path].dl # "ok"}) = 1
    /\ NumSucceeded = 2
    /\ dcm_count = batchBase + 2

\* C6: the number of images converted in one run (complete JPG files
\* written) never exceeds max_files.
C6_ConvertedWithinBudget ==
    Cardinality({p \in DOMAIN fs : fs[p].kind = "jpg" /\ fs[p].full}) <= max_files

\* C7: whenever the control thread is outside a directory's pool (before the
\* next pop and listing request, and when the function has returned or
\* raised), every unit submitted for the current directory is done.
C7_BatchDrainedBeforeNextDirectory ==
    pc \in {"check", "while", "get_soup", "done", "raised"} => AllDone(tasks)

\* C7 witness: the pool was left after the completion loop broke off with
\* futures it never looked at.
C7_Witness ==
    /\ pc = "check"
    /\ Len(tasks) >= 2
    /\ yielded # DOMAIN tasks
    /\ dcm_count >= max_files

(***************************************************************************)
(* dicom_to_jpg called on its own, for every encoder behaviour             *)
(***************************************************************************)
JobSrc == Root \o <<D("p10"), F("i", ".dcm")>>

JobDcm == DcmLocalPath([path |-> JobSrc, slash |-> FALSE])

JobJpg == JpgLocalPath(JobDcm)

\* what cv2.imencode may return at one quality
EncOutcomes ==
    {[ok |-> FALSE, len |-> 0]} \cup
    {[ok |-> TRUE, len |-> n] : n \in {TargetSize, TargetSize + 1}}

TargetSizes == {TargetSize - 1, TargetSize}

ConvProfiles ==
    [dl : {"ok"}, decode : BOOLEAN, enc : [Qualities -> EncOutcomes],
     write : {"ok", "nofile", "partial"}, remove : BOOLEAN]

IdleCrawl ==
    /\ pc = "job"
    /\ dcm_count = 0
    /\ links_to_visit = << >>
    /\ visited = {}
    /\ current_url = BASE_DICOM_URL
    /\ soup = << >>
    /\ tasks = << >>
    /\ yielded = {}
    /\ fetchLog = << >>
    /\ batchBase = 0
    /\ max_files = 0
    /\ site = [listing |-> [p \in {} |-> << >>], broken |-> {}]

InitConv ==
    /\ IdleCrawl
    /\ profile \in [{JobSrc} -> ConvProfiles]
    /\ fs = Put(EmptyFs, JobDcm, Downloaded(JobSrc, TRUE))
    /\ job \in [op : {"dicom_to_jpg"}, st : {"call"}, target_size : TargetSizes]

JobIo == [write |-> profile[JobSrc].write, remove |-> profile[JobSrc].remove]

\* download_and_convert line 308: the call returns
ConvertReturns ==
    /\ job.op = "dicom_to_jpg"
    /\ job.st = "call"
    /\ LET r == dicom_to_jpg(fs, profile, JobDcm, JobJpg, job.target_size, JobIo)
       IN  /\ ~r.raised
           /\ fs' = r.fs
           /\ job' = [job EXCEPT !.st = "returned"]
    /\ UNCHANGED <<site, profile, max_files>>
    /\ UNCHANGED crawlVars

\* download_and_convert lines 309-311: the call raises
ConvertRaises ==
    /\ job.op = "dicom_to_jpg"
    /\ job.st = "call"
    /\ LET r == dicom_to_jpg(fs, profile, JobDcm, JobJpg, job.target_size, JobIo)
       IN  /\ r.raised
           /\ fs' = r.fs
           /\ job' = [job EXCEPT !.st = "raised"]
    /\ UNCHANGED <<site, profile, max_files>>
    /\ UNCHANGED crawlVars

NextConv == ConvertReturns \/ ConvertRaises

SpecConv == InitConv /\ [][NextConv]_vars

(***************************************************************************)
(* Properties of dicom_to_jpg                                              *)
(***************************************************************************)
JobEnc == profile[JobSrc].enc

\* the tested qualities whose encoding is no longer than the ceiling
Fitting == {q \in Qualities : JobEnc[q].ok /\ JobEnc[q].len <= job.target_size}

\* the quality the size policy selects: the highest that fits, else 10
Selected ==
    IF Fitting = {} THEN 10 ELSE CHOOSE q \in Fitting : \A f \in Fitting : q >= f

\* the call has ended, the image decoded, the encoder worked at every
\* quality down to the selected one, and the target could be written
Transcoded ==
    /\ job.op = "dicom_to_jpg"
    /\ job.st # "call"
    /\ profile[JobSrc].decode
    /\ \A q \in Qualities : q >= Selected => JobEnc[q].ok
    /\ profile[JobSrc].write = "ok"

\* C8: for every encoder behaviour and every size ceiling, dicom_to_jpg
\* writes the encoding of the highest of the qualities 90, 80, ..., 10 whose
\* length is <= the ceiling, and exactly the encoding at quality 10 when no
\* tested quality fits.
C8_SizePolicy ==
    Transcoded =>
        /\ Exists(fs, JobJpg)
        /\ fs[JobJpg] = Jpg(JobSrc, Selected, JobEnc[Selected].len, TRUE)

\* C8 witness: an encoder whose sizes do not fall with the quality: 90 and
\* 80 are too long, 70 fits and was written, 60 would be too long again.
C8_Witness ==
    /\ Transcoded
    /\ JobEnc[90].len > job.target_size
    /\ JobEnc[80].len > job.target_size
    /\ JobEnc[70].len = job.target_size
    /\ JobEnc[60].len > job.target_size
    /\ Exists(fs, JobJpg)
    /\ fs[JobJpg].quality = 70

SourceIntact == Exists(fs, JobDcm) /\ fs[JobDcm] = Downloaded(JobSrc, TRUE)

TargetWritten == Exists(fs, JobJpg) /\ fs[JobJpg].full

\* decoding failed, or the encoder failed at a quality that was tried, or
\* the target could not be written
ConversionFailed ==
    \/ ~profile[JobSrc].decode
    \/ \E q \in Qualities : q >= Selected /\ ~JobEnc[q].ok
    \/ profile[JobSrc].write # "ok"

\* C9 as claimed: after dicom_to_jpg the source is deleted if the target JPG
\* was written; after a failed decode, encode or write the source is present
\* and unchanged and no target file is written.
C9_SourceRemovedIffConverted ==
    (job.op = "dicom_to_jpg" /\ job.st # "call") =>
        /\ ~Exists(fs, JobDcm) => TargetWritten
        /\ TargetWritten => ~Exists(fs, JobDcm)
        /\ ConversionFailed => (SourceIntact /\ ~Exists(fs, JobJpg))

\* C9 amended: the source is deleted only if the target JPG was written
\* completely, and then it is deleted unless os.remove itself fails; after a
\* failed decode, encode or write the source is present and unchanged; after
\* a failed decode or encode there is no target file, after a failed write
\* there is no complete one.
C9_SourceRemovedOnlyIfConverted ==
    (job.op = "dicom_to_jpg" /\ job.st # "call") =>
        /\ ~Exists(fs, JobDcm) => TargetWritten
        /\ (TargetWritten /\ profile[JobSrc].remove) => ~Exists(fs, JobDcm)
        /\ ~SourceIntact => ~Exists(fs, JobDcm)
        /\ ConversionFailed => (SourceIntact /\ ~TargetWritten)
        /\ (ConversionFailed /\ profile[JobSrc].write # "partial") => ~Exists(fs, JobJpg)

\* C9 witness: a write that failed after the target had been opened: the
\* source is intact and an incomplete target is left.
C9_Witness ==
    /\ job.op = "dicom_to_jpg"
    /\ job.st = "raised"
    /\ SourceIntact
    /\ Exists(fs, JobJpg)
    /\ ~fs[JobJpg].full

(***************************************************************************)
(* extract_if_archive                                                      *)
(***************************************************************************)
\* filepath[:-3]
StripGz(filepath) == Front(filepath) \o <<F(Last(filepath).name, "")>>

\* os.path.dirname(filepath)
Dirname(filepath) == Front(filepath)

\* zf.extractall(folder) of these entries
RECURSIVE ExtractAll(_, _, _, _)
ExtractAll(files, folder, entries, src) ==
    IF entries = {} THEN files
    ELSE LET e == CHOOSE x \in entries : TRUE
         IN  ExtractAll(Put(files, folder \o <<e>>, Extracted(src, TRUE)),
                        folder, entries \ {e}, src)

\* the archive is removed whether or not the extraction worked
extract_if_archive_AlwaysRemove(files, filepath, arch) ==
    IF ~Exists(files, filepath) THEN [fs |-> files, raised |-> FALSE, removed |-> FALSE]
    ELSE IF Lower(Last(filepath).ext) = ".zip"
    THEN [fs |-> Del(ExtractAll(files, Dirname(filepath),
                                IF arch.bad THEN arch.done ELSE arch.entries, filepath),
                     filepath),
          raised |-> FALSE, removed |-> TRUE]
    ELSE IF Lower(Last(filepath).ext) = ".gz"
    THEN [fs |-> Del(IF arch.outopen
                     THEN Put(files, StripGz(filepath), Extracted(filepath, ~arch.bad))
                     ELSE files, filepath),
          raised |-> FALSE, removed |-> TRUE]
    ELSE [fs |-> files, raised |-> FALSE, removed |-> FALSE]

\* arch.entries: the members of the zip archive; arch.bad: reading the
\* archive raises, for a zip after the members arch.done were written;
\* arch.outopen: open(outpath, 'wb') works; arch.remove: os.remove works.
\* removed: the "Removed ..." line was reached
extract_if_archive(files, filepath, arch) ==
    IF ~Exists(files, filepath) THEN [fs |-> files, raised |-> FALSE, removed |-> FALSE]
    ELSE IF Lower(Last(filepath).ext) = ".zip"
    THEN IF arch.bad
         THEN [fs |-> ExtractAll(files, Dirname(filepath), arch.done, filepath),
               raised |-> FALSE, removed |-> FALSE]
         ELSE LET out == ExtractAll(files, Dirname(filepath), arch.entries, filepath)
              IN  IF arch.remove
                  THEN [fs |-> Del(out, filepath), raised |-> FALSE, removed |-> TRUE]
                  ELSE [fs |-> out, raised |-> FALSE, removed |-> FALSE]
    ELSE IF Lower(Last(filepath).ext) = ".gz"
    THEN IF ~arch.outopen
         THEN [fs |-> files, raised |-> FALSE, removed |-> FALSE]
         ELSE IF arch.bad
         THEN [fs |-> Put(files, StripGz(filepath), Extracted(filepath, FALSE)),
               raised |-> FALSE, removed |-> FALSE]
         ELSE LET out == Put(files, StripGz(filepath), Extracted(filepath, TRUE))
              IN  IF arch.remove
                  THEN [fs |-> Del(out, filepath), raised |-> FALSE, removed |-> TRUE]
                  ELSE [fs |-> out, raised |-> FALSE, removed |-> FALSE]
    ELSE [fs |-> files, raised |-> FALSE, removed |-> FALSE]

ArchiveExts == {".zip", ".ZIP", ".gz", ".GZ", ".txt"}

EntryNames == {F("a", ".csv"), F("b", ".txt")}

ArchivePaths == {SAVE_DIR \o <<F("m", e)>> : e \in ArchiveExts}

ArchiveSrc == <<F("m", ".remote")>>

Archives ==
    {a \in [entries : SUBSET EntryNames, bad : BOOLEAN, done : SUBSET EntryNames,
            outopen : BOOLEAN, remove : BOOLEAN] :
        /\ a.done \subseteq a.entries
        /\ a.bad => a.done # a.entries}

InitExtract ==
    /\ IdleCrawl
    /\ profile = [f \in {} |-> POk]
    /\ job \in [op : {"extract_if_archive"}, st : {"call"}, isfile : BOOLEAN,
                filepath : ArchivePaths, arch : Archives]
    /\ fs = IF job.isfile THEN Put(EmptyFs, job.filepath, Downloaded(ArchiveSrc, TRUE))
            ELSE EmptyFs

\* download_top_level_files lines 234-236: extract_if_archive(dl_path)
ExtractCall ==
    /\ job.op = "extract_if_archive"
    /\ job.st = "call"
    /\ LET r == extract_if_archive(fs, job.filepath, job.arch)
       IN  /\ fs' = r.fs
           /\ job' = [job EXCEPT !.st = IF r.raised THEN "raised"
                                        ELSE IF r.removed THEN "removed" ELSE "returned"]
    /\ UNCHANGED <<site, profile, max_files>>
    /\ UNCHANGED crawlVars

NextExtract == ExtractCall

SpecExtract == InitExtract /\ [][NextExtract]_vars

(***************************************************************************)
(* Properties of extract_if_archive                                        *)
(***************************************************************************)
IsZip == Lower(Last(job.filepath).ext) = ".zip"

IsGz == Lower(Last(job.filepath).ext) = ".gz"

\* the archive can be read to its end, the output can be opened, and the
\* archive can be removed
ExtractionSucceeds ==
    /\ ~job.arch.bad
    /\ IsGz => job.arch.outopen
    /\ job.arch.remove

Complete(path) == Exists(fs, path) /\ fs[path].kind = "extracted" /\ fs[path].full

\* C10: for a .zip or .gz file, after a successful extraction the archive no
\* longer exists and its contents exist (for .gz exactly one output file,
\* named without the .gz suffix); after a failed extraction the archive still
\* exists unchanged; no error propagates to the caller.
C10_ArchiveCleanup ==
    (/\ job.op = "extract_if_archive"
     /\ job.st # "call"
     /\ job.isfile
     /\ IsZip \/ IsGz) =>
        /\ job.st # "raised"
        /\ ExtractionSucceeds =>
              /\ job.st = "removed"
              /\ ~Exists(fs, job.filepath)
              /\ IsZip => \A e \in job.arch.entries : Complete(Dirname(job.filepath) \o <<e>>)
              /\ IsGz => (Complete(StripGz(job.filepath))
                          /\ DOMAIN fs = {StripGz(job.filepath)})
        /\ ~ExtractionSucceeds =>
              /\ job.st = "returned"
              /\ Exists(fs, job.filepath)
              /\ fs[job.filepath] = Downloaded(ArchiveSrc, TRUE)

\* C10 witness: a zip archive whose extraction broke off after a member had
\* been written: the member is there and so is the archive.
C10_Witness ==
    /\ job.op = "extract_if_archive"
    /\ job.st = "returned"
    /\ job.isfile
    /\ IsZip
    /\ job.arch.bad
    /\ job.arch.done # {}
    /\ \A e \in job.arch.done : Complete(Dirname(job.filepath) \o <<e>>)
    /\ Exists(fs, job.filepath)

(***************************************************************************)
(* Properties of the local paths                                           *)
(***************************************************************************)
\* the URL lies under https://physionet.org/files/mimic-cxr/2.1.0/
UnderPrefix(url) ==
    /\ Len(url.path) >= 2
    /\ SubSeq(url.path, 1, 2) = <<D("files"), KeySeg>>

\* C11: two distinct remote file URLs under the dataset prefix never get the
\* same local download path nor the same .jpg target path.
C11_LocalPathsInjective ==
    \A i, j \in DOMAIN tasks :
        (/\ UnderPrefix(tasks[i].file_url)
         /\ UnderPrefix(tasks[j].file_url)
         /\ tasks[i].file_url # tasks[j].file_url) =>
            /\ tasks[i].dcm_path # tasks[j].dcm_path
            /\ tasks[i].jpg_path # tasks[j].jpg_path

(***************************************************************************)
(* dicom_to_jpg lines 148-154: the rescaling of the pixel buffer           *)
(***************************************************************************)
\* Samples are counted in units of half the epsilon of line 150, so that a
\* buffer can be near-constant without being constant: 1e-6 is 2 units.
Epsilon == 2

MaxPixels == 3

MaxSample == 3

MinOf(arr) == CHOOSE v \in Range(arr) : \A w \in Range(arr) : v <= w

MaxOf(arr) == CHOOSE v \in Range(arr) : \A w \in Range(arr) : v >= w

\* (arr - min_val)/(max_val - min_val)*255.0 followed by astype(np.uint8)
Rescaled(v, min_val, max_val) == ((v - min_val) * 255) \div (max_val - min_val)

\* the test of line 150 looks at max_val alone: a constant buffer that is
\* not zero is divided by max_val - min_val = 0 (nan, cast to 0)
Normalize_MaxOnly(arr) ==
    IF MaxOf(arr) < Epsilon
    THEN [out |-> [i \in DOMAIN arr |-> 0], divided |-> FALSE]
    ELSE [out |-> [i \in DOMAIN arr |->
                      IF MaxOf(arr) = MinOf(arr) THEN 0
                      ELSE Rescaled(arr[i], MinOf(arr), MaxOf(arr))],
          divided |-> TRUE]

\* lines 148-154; divided: the division of line 153 was evaluated
Normalize(arr) ==
    IF MaxOf(arr) - MinOf(arr) < Epsilon
    THEN [out |-> [i \in DOMAIN arr |-> 0], divided |-> FALSE]
    ELSE [out |-> [i \in DOMAIN arr |-> Rescaled(arr[i], MinOf(arr), MaxOf(arr))],
          divided |-> TRUE]

PixelBuffers == UNION {[1..n -> 0..MaxSample] : n \in 1..MaxPixels}

InitNorm ==
    /\ IdleCrawl
    /\ profile = [f \in {} |-> POk]
    /\ fs = EmptyFs
    /\ job \in [op : {"normalize"}, st : {"call"}, arr : PixelBuffers,
                out : {<< >>}, divided : {FALSE}]

\* dicom_to_jpg lines 148-154 run on the decoded buffer
NormalizeCall ==
    /\ job.op = "normalize"
    /\ job.st = "call"
    /\ LET r == Normalize(job.arr)
       IN  job' = [job EXCEPT !.st = "done", !.out = r.out, !.divided = r.divided]
    /\ UNCHANGED <<site, profile, max_files, fs>>
    /\ UNCHANGED crawlVars

NextNorm == NormalizeCall

SpecNorm == InitNorm /\ [][NextNorm]_vars

\* C12: for a decoded buffer whose samples are all equal (max - min below
\* the epsilon) the 8-bit buffer is all zero and the division by
\* (max - min) is not evaluated.
C12_DegenerateBufferIsZero ==
    (/\ job.op = "normalize"
     /\ job.st = "done"
     /\ MaxOf(job.arr) - MinOf(job.arr) < Epsilon) =>
        /\ Len(job.out) = Len(job.arr)
        /\ \A i \in DOMAIN job.out : job.out[i] = 0
        /\ ~job.divided

\* C12 witness: a buffer of several equal samples that are not zero has
\* been rescaled.
C12_Witness ==
    /\ job.op = "normalize"
    /\ job.st = "done"
    /\ Len(job.arr) >= 2
    /\ \A i \in DOMAIN job.arr : job.arr[i] = job.arr[1] /\ job.arr[i] > 0
    /\ \A i \in DOMAIN job.out : job.out[i] = 0

(***************************************************************************)
(* Further properties of the crawl                                         *)
(***************************************************************************)
\* a complete JPG file is at the target path of tasks[i]
HasJpg(i) ==
    /\ Exists(fs, tasks[i].jpg_path)
    /\ fs[tasks[i].jpg_path].kind = "jpg"
    /\ fs[tasks[i].jpg_path].full

\* C13: dcm_count is incremented for a unit only if its download and its
\* conversion succeeded and a JPG was written: the increments of the current
\* batch never outnumber the units the loop has looked at whose JPG exists.
C13_CountedOnlyIfConverted ==
    dcm_count - batchBase <= Cardinality({i \in yielded : HasJpg(i)})

\* C14: once dcm_count has reached max_files, for the rest of the run no
\* listing is requested and no unit is added to tasks, and the budget stays
\* reached (units already submitted may still change state).
C14_NothingNewAfterBudget ==
    [][dcm_count >= max_files =>
          /\ fetchLog' = fetchLog
          /\ Len(tasks') = Len(tasks)
          /\ dcm_count' >= max_files]_vars

\* C14 witness: the function has returned with the budget met while a
\* directory that was never visited is still in links_to_visit.
C14_Witness ==
    /\ pc = "done"
    /\ max_files > 0
    /\ dcm_count = max_files
    /\ \E i \in DOMAIN links_to_visit : links_to_visit[i] \notin visited

\* the state in which crawl_and_convert_dicom has returned normally
Terminated ==
    /\ pc = "done"
    /\ (links_to_visit = << >> \/ dcm_count >= max_files)

\* C15: on any of the finite link graphs, cyclic ones and ones with a
\* directory linked from several parents included, if every listing fetch
\* succeeds and every unit is eventually finished by the pool, the crawl
\* eventually returns and stays returned, with links_to_visit empty or
\* dcm_count >= max_files.
C15_Terminates == (site.broken = {}) => <>[]Terminated

\* C15 witness: the crawl of the cyclic graph has returned with the frontier
\* exhausted and the budget not met, after every directory was fetched.
C15_Witness ==
    /\ site.listing = CycleListing
    /\ site.broken = {}
    /\ Terminated
    /\ links_to_visit = << >>
    /\ dcm_count < max_files
    /\ visited = {DirUrl(Root), DirUrl(DirA), DirUrl(DirB)}

\* the outcome of the download of the i-th unit of the batch
DownloadOf(i) == profile[tasks[i].file_url.path].dl

\* the JPG files of a filesystem
Jpgs(files) == {<<p, files[p]>> : p \in {q \in DOMAIN files : files[q].kind = "jpg"}}

\* C16: in every step, a unit enters its transcode only from its download,
\* only if that download succeeded and with the whole file on disk; a unit
\* whose download failed ends at once with result False; a finished unit
\* never runs again; and a JPG file appears or changes only in the step that
\* ends the transcode of some unit.
C16_DownloadThenTranscode ==
    [][/\ \A i \in DOMAIN tasks \cap DOMAIN tasks' :
            /\ (tasks'[i].st = "converting" /\ tasks[i].st # "converting") =>
                   /\ tasks[i].st = "downloading"
                   /\ DownloadOf(i) = "ok"
                   /\ Exists(fs', tasks[i].dcm_path)
                   /\ fs'[tasks[i].dcm_path] = Downloaded(tasks[i].file_url.path, TRUE)
            /\ (tasks[i].st = "downloading" /\ tasks'[i] # tasks[i]
                    /\ DownloadOf(i) # "ok") =>
                   /\ tasks'[i].st = "done"
                   /\ ~tasks'[i].result
            /\ tasks[i].st = "done" => tasks'[i] = tasks[i]
       /\ Jpgs(fs') # Jpgs(fs) =>
              \E i \in DOMAIN tasks \cap DOMAIN tasks' :
                  /\ tasks[i].st = "converting"
                  /\ tasks'[i].st = "done"
                  /\ DownloadOf(i) = "ok"]_vars

\* C16 witness: in one batch a unit whose download failed has ended with
\* result False and no JPG, and a unit whose download succeeded has ended
\* with its JPG written.
C16_Witness ==
    \E i, j \in DOMAIN tasks :
        /\ tasks[i].st = "done"
        /\ DownloadOf(i) # "ok"
        /\ ~tasks[i].result
        /\ ~Exists(fs, tasks[i].jpg_path)
        /\ tasks[j].st = "done"
        /\ DownloadOf(j) = "ok"
        /\ tasks[j].result
        /\ HasJpg(j)

\* C17: in every step that handles an anchor, if its href is missing or
\* empty or is exactly '../' then neither links_to_visit nor tasks changes;
\* and for every other href that ends in '/', the joined URL is appended to
\* links_to_visit and no unit is submitted.
C17_AnchorClassification ==
    [][(pc = "anchors" /\ soup # << >> /\ soup' = Tail(soup)) =>
          IF Head(soup) \in {EmptyHref, ParentHref}
          THEN /\ links_to_visit' = links_to_visit
               /\ tasks' = tasks
          ELSE Head(soup).slash =>
                   /\ links_to_visit' =
                          Append(links_to_visit, urljoin(current_url, Head(soup)))
                   /\ tasks' = tasks]_vars

\* C17 witness: in the tree, the anchors of the second directory are all
\* handled: '../' of the root and the anchor without href were passed over,
\* and the directory links a/ (from the root) and ../a/ were pushed.
C17_Witness ==
    /\ site.listing = TreeListing
    /\ pc = "anchors"
    /\ current_url = DirUrl(DirB)
    /\ soup = << >>
    /\ links_to_visit = <<DirUrl(DirA), DirUrl(DirA)>>
    /\ tasks = << >>

\* C18: no two units that are running at the same time have the same .dcm
\* download path or the same .jpg target path.
C18_NoSharedDestination ==
    \A i, j \in Running(tasks) :
        i # j =>
            /\ tasks[i].dcm_path # tasks[j].dcm_path
            /\ tasks[i].jpg_path # tasks[j].jpg_path

\* the location is the root of the crawl or lies below it
UnderRoot(url) ==
    /\ Len(url.path) >= Len(Root)
    /\ SubSeq(url.path, 1, Len(Root)) = Root

\* C19: every location whose listing was fetched is the root or a descendant
\* of the root.
C19_FetchesStayUnderRoot ==
    \A k \in DOMAIN fetchLog : UnderRoot(fetchLog[k])

====
